---- MODULE Spec2Model ----
(***************************************************************************)
(* Model of the create-microservice scaffolding tool: the command-line     *)
(* front end (cli.py: _normalize_name, main), the scaffolding engine        *)
(* (scaffold.py: create_project, _write_file, _git_init) and the template   *)
(* catalogue (templates/__init__.py: MANIFEST, render), run against a small *)
(* file system.                                                             *)
(*                                                                          *)
(* Text that the program takes apart (names, path strings) is a sequence    *)
(* of one-character strings; text that it only passes along is a sequence   *)
(* of string chunks.  Str flattens either into a string.  A file-system     *)
(* path is the sequence of its components from the root.                    *)
(***************************************************************************)
EXTENDS Integers, Sequences, FiniteSets, TLC

\* ------------------------------------------------------------------------
\* Bounds
\* ------------------------------------------------------------------------
MaxLen == 2        \* raw --name values: every string over Alphabet up to this length
MaxRuns == 2       \* invocations of the tool in the same working directory

\* ------------------------------------------------------------------------
\* Characters
\* ------------------------------------------------------------------------
UpperChars == <<"A", "B", "C", "D", "E", "F", "G", "H", "I", "J", "K", "L", "M",
                "N", "O", "P", "Q", "R", "S", "T", "U", "V", "W", "X", "Y", "Z">>
LowerChars == <<"a", "b", "c", "d", "e", "f", "g", "h", "i", "j", "k", "l", "m",
                "n", "o", "p", "q", "r", "s", "t", "u", "v", "w", "x", "y", "z">>
DigitChars == <<"0", "1", "2", "3", "4", "5", "6", "7", "8", "9">>

Range(s) == {s[i] : i \in 1..Len(s)}

LowerSet == Range(LowerChars)
DigitSet == Range(DigitChars)

RECURSIVE Str(_)
Str(s) == IF s = <<>> THEN "" ELSE Head(s) \o Str(Tail(s))

\* str.lower() on one character (cli.py:22, name.lower())
Lower(c) ==
    IF \E i \in 1..Len(UpperChars) : UpperChars[i] = c
    THEN LowerChars[CHOOSE i \in 1..Len(UpperChars) : UpperChars[i] = c]
    ELSE c

str_lower(s) == [i \in 1..Len(s) |-> Lower(s[i])]

\* the complement of the character class [^a-z0-9] (cli.py:22)
InAZ09(c) == c \in LowerSet \cup DigitSet

\* one greedy match of [^a-z0-9]+ at the head of s: what is left after it
RECURSIVE SkipRun(_)
SkipRun(s) ==
    IF s # <<>> /\ ~InAZ09(Head(s)) THEN SkipRun(Tail(s)) ELSE s

\* mutant of re_sub: the pattern without its "+", one underscore per character
RECURSIVE re_sub_each(_)
re_sub_each(s) ==
    IF s = <<>> THEN <<>>
    ELSE IF ~InAZ09(Head(s)) THEN <<"_">> \o re_sub_each(Tail(s))
    ELSE <<Head(s)>> \o re_sub_each(Tail(s))

\* re.sub(r"[^a-z0-9]+", "_", s): left to right, each match replaced by "_"
RECURSIVE re_sub(_)
re_sub(s) ==
    IF s = <<>> THEN <<>>
    ELSE IF ~InAZ09(Head(s)) THEN <<"_">> \o re_sub(SkipRun(s))
    ELSE <<Head(s)>> \o re_sub(Tail(s))

RECURSIVE lstrip(_)
lstrip(s) == IF s # <<>> /\ Head(s) = "_" THEN lstrip(Tail(s)) ELSE s

RECURSIVE rstrip(_)
rstrip(s) ==
    IF s # <<>> /\ s[Len(s)] = "_" THEN rstrip(SubSeq(s, 1, Len(s) - 1)) ELSE s

\* str.strip("_")
str_strip(s) == rstrip(lstrip(s))

\* mutant of _normalize_name: the .strip("_") forgotten
normalize_no_strip(name) == re_sub(str_lower(name))

\* mutant of _normalize_name: the underscores stripped before the
\* substitution instead of after it
normalize_strip_first(name) == re_sub(str_strip(str_lower(name)))

\* _normalize_name (cli.py:16-22)
_normalize_name(name) == str_strip(re_sub(str_lower(name)))

\* mutant of IsIdentifier: the pattern ^[a-z0-9_]*$, which lets "" and a
\* leading digit through
IsIdentifierLoose(m) ==
    \A i \in 1..Len(m) : m[i] \in LowerSet \cup DigitSet \cup {"_"}

\* re.match(r"^[a-z_][a-z0-9_]*$", m) (cli.py:65); "$" also matches just
\* before a final newline
IsIdentifier(m) ==
    LET body == IF m # <<>> /\ m[Len(m)] = "\n"
                THEN SubSeq(m, 1, Len(m) - 1) ELSE m
    IN  /\ body # <<>>
        /\ body[1] \in LowerSet \cup {"_"}
        /\ \A i \in 2..Len(body) : body[i] \in LowerSet \cup DigitSet \cup {"_"}

\* ------------------------------------------------------------------------
\* Paths (pathlib) and the file system
\* ------------------------------------------------------------------------
Cwd == <<"home", "cwd">>                     \* Path.cwd()

\* the text between the "/" of a path string
RECURSIVE Split(_, _)
Split(chars, cur) ==
    IF chars = <<>> THEN (IF cur = <<>> THEN <<>> ELSE <<cur>>)
    ELSE IF Head(chars) = "/"
         THEN (IF cur = <<>> THEN <<>> ELSE <<cur>>) \o Split(Tail(chars), <<>>)
         ELSE Split(Tail(chars), Append(cur, Head(chars)))

IsDot(c) == c = <<".">>

\* the components pathlib keeps of a path string: empty ones and "." dropped
PathParts(chars) ==
    LET kept == SelectSeq(Split(chars, <<>>), LAMBDA c : ~IsDot(c))
    IN  [i \in 1..Len(kept) |-> Str(kept[i])]

\* base / chars: an absolute right-hand side replaces the base
PathDiv(base, chars) ==
    IF chars # <<>> /\ Head(chars) = "/" THEN PathParts(chars)
    ELSE base \o PathParts(chars)

\* the directory a path names once its ".." components are followed
\* (no symbolic links; ".." of the root is the root)
RECURSIVE ResolveFrom(_, _)
ResolveFrom(p, acc) ==
    IF p = <<>> THEN acc
    ELSE IF Head(p) = ".."
         THEN ResolveFrom(Tail(p), IF acc = <<>> THEN <<>> ELSE SubSeq(acc, 1, Len(acc) - 1))
         ELSE ResolveFrom(Tail(p), Append(acc, Head(p)))

Resolve(p) == ResolveFrom(p, <<>>)

Dir == [kind |-> "dir", content |-> "", gen |-> 0]
File(content, gen) == [kind |-> "file", content |-> content, gen |-> gen]

\* Path.exists()
Exists(tree, p) == Resolve(p) \in DOMAIN tree

Prefixes(p) == {SubSeq(p, 1, k) : k \in 0..Len(p)}

IsPrefix(p, q) == Len(p) <= Len(q) /\ SubSeq(q, 1, Len(p)) = p

\* Path.mkdir(parents=True, exist_ok=True) on directory d, then
\* Path.write_text on file f (scaffold.py:70-72).  err is the exception raised,
\* "" when there is none; tree is the file system afterwards.
MkdirParents(tree, d) ==
    LET r == Resolve(d)
        blocked == \E q \in Prefixes(r) : q \in DOMAIN tree /\ tree[q].kind = "file"
        new == {q \in Prefixes(r) : q \notin DOMAIN tree}
    IN  IF blocked
        THEN [err |-> IF r \in DOMAIN tree THEN "FileExistsError" ELSE "NotADirectoryError",
              tree |-> tree]
        ELSE [err |-> "",
              tree |-> [q \in DOMAIN tree \cup new |-> IF q \in new THEN Dir ELSE tree[q]]]

WriteText(tree, f, content, gen) ==
    LET r == Resolve(f)
    IN  IF r \in DOMAIN tree /\ tree[r].kind = "dir"
        THEN [err |-> "IsADirectoryError", tree |-> tree]
        ELSE IF SubSeq(r, 1, Len(r) - 1) \notin DOMAIN tree
        THEN [err |-> "FileNotFoundError", tree |-> tree]
        ELSE [err |-> "",
              tree |-> [q \in DOMAIN tree \cup {r} |->
                            IF q = r THEN File(content, gen) ELSE tree[q]]]

\* mutant of _write_file: mkdir without exist_ok, which refuses a directory
\* that is already there
_write_file_strict(tree, base_dir, rel, content, gen) ==
    LET file_path == base_dir \o rel
        parent == SubSeq(file_path, 1, Len(file_path) - 1)
        made == MkdirParents(tree, parent)
    IN  IF Exists(tree, parent) THEN [err |-> "FileExistsError", tree |-> tree]
        ELSE IF made.err # "" THEN made
        ELSE WriteText(made.tree, file_path, content, gen)

\* _write_file(base_dir, rel_path, content) (scaffold.py:68-72); rel is the
\* component list of rel_path
_write_file(tree, base_dir, rel, content, gen) ==
    LET file_path == base_dir \o rel
        parent == SubSeq(file_path, 1, Len(file_path) - 1)
        made == MkdirParents(tree, parent)
    IN  IF made.err # "" THEN made
        ELSE WriteText(made.tree, file_path, content, gen)

\* mutant of copy2: dst is created empty instead of getting the bytes of src
copy2_touch(tree, src, dst, gen) ==
    LET d == Resolve(dst)
    IN  [q \in DOMAIN tree \cup {d} |->
            IF q = d THEN File("", gen) ELSE tree[q]]

\* shutil.copy2(src, dst) (scaffold.py:58): dst gets the bytes of src
copy2(tree, src, dst, gen) ==
    LET s == Resolve(src)
        d == Resolve(dst)
    IN  [q \in DOMAIN tree \cup {d} |->
            IF q = d THEN File(tree[s].content, gen) ELSE tree[q]]

\* ------------------------------------------------------------------------
\* Templates (templates/*.py) and manifests (templates/__init__.py)
\* ------------------------------------------------------------------------
T(text) == [k |-> "lit", v |-> text]       \* literal template text
V(name) == [k |-> "var", v |-> name]       \* $name
VB(name) == [k |-> "bvar", v |-> name]     \* ${name}

pyproject_toml ==
    << T("[project]\nname = \""), V("project_name"),
       T("\"\nversion = \"0.1.0\"\ndescription = \""), V("project_name"),
       T(" microservice\"\ndependencies = [\n    \""), V("usvc_lib_dependency"),
       T("\",\n]\npackages = [\"src/"), V("module_name"),
       T("\", \"src/actions\", \"src/services\"]\n") >>

readme ==
    << T("# "), V("project_name"),
       T("\n...\nuv run python -m "), V("module_name"),
       T(".main\n...\nthen register it in src/"), V("module_name"),
       T("/main.py:\n...") >>

env_example ==
    << T("# "), V("project_name"),
       T(" configuration\nMICROSERVICE_NAME="), V("project_name"),
       T("\n\nDEV_MODE=true\n...") >>

main_py ==
    << T("\"\"\"Entry point for the "), V("project_name"),
       T(" microservice.\"\"\"\n\nfrom usvc_lib import Application\n\nfrom "),
       VB("module_name"), T(".config import Settings\n...") >>

config_py ==
    << T("\"\"\"Custom settings for the "), V("project_name"),
       T(" microservice.\n...") >>

action_handler == << T("\"\"\"hello_world action handler.\"\"\"\n...") >>
test_example == << T("\"\"\"Tests for the hello_world action.\"\"\"\n...") >>

\* template modules the manifest imports whose text is not in the source tree
gitignore == << T("<.gitignore>") >>
init_py == << T("") >>
action_schema == << T("<schemas.py>") >>
service_example == << T("<example_api.py>") >>
conftest_py == << T("<conftest.py>") >>
claude_md ==
    << T("# "), V("project_name"), T("\n...\nuv run python -m "),
       V("module_name"), T(".main\n...") >>
claude_settings == << T("<settings.json>") >>
copilot_md ==
    << T("# "), V("project_name"), T("\n...\nuv run python -m "),
       V("module_name"), T(".main\n...") >>

\* mutant of render: Template.safe_substitute, which leaves a placeholder it
\* has no value for in the text and raises nothing
render_safe(content, kwargs) ==
    LET piece(i) == IF content[i].k = "lit" THEN content[i]
                    ELSE IF content[i].v \in DOMAIN kwargs
                    THEN [k |-> "val", v |-> Str(kwargs[content[i].v])]
                    ELSE [k |-> content[i].k, v |-> "$" \o content[i].v]
        pieces == [i \in 1..Len(content) |-> piece(i)]
    IN  [err |-> "", pieces |-> pieces,
         text |-> Str([i \in 1..Len(content) |-> pieces[i].v])]

\* mutant of render: only the $name form is substituted, ${name} is left
render_unbraced(content, kwargs) ==
    LET missing == \E i \in 1..Len(content) :
                       content[i].k = "var" /\ content[i].v \notin DOMAIN kwargs
        piece(i) == IF content[i].k = "var"
                    THEN [k |-> "val", v |-> Str(kwargs[content[i].v])]
                    ELSE IF content[i].k = "bvar"
                    THEN [k |-> "bvar", v |-> "${" \o content[i].v \o "}"]
                    ELSE content[i]
        pieces == [i \in 1..Len(content) |-> piece(i)]
    IN  IF missing THEN [err |-> "KeyError", pieces |-> <<>>, text |-> ""]
        ELSE [err |-> "", pieces |-> pieces,
              text |-> Str([i \in 1..Len(content) |-> pieces[i].v])]

\* render(template_module, **kwargs) (templates/__init__.py:57-60):
\* string.Template.substitute, which raises KeyError for a placeholder that
\* kwargs does not supply
\* pieces is the output part by part, each a literal of the template, a
\* value put in ("val") or a placeholder left as it was; text is the output
render(content, kwargs) ==
    LET missing == \E i \in 1..Len(content) :
                       content[i].k # "lit" /\ content[i].v \notin DOMAIN kwargs
        piece(i) == IF content[i].k = "lit" THEN content[i]
                    ELSE [k |-> "val", v |-> Str(kwargs[content[i].v])]
        pieces == [i \in 1..Len(content) |-> piece(i)]
    IN  IF missing THEN [err |-> "KeyError", pieces |-> <<>>, text |-> ""]
        ELSE [err |-> "", pieces |-> pieces,
              text |-> Str([i \in 1..Len(content) |-> pieces[i].v])]

\* a destination-path pattern: its components, "{module_name}" a placeholder
L(name) == [k |-> "lit", v |-> name]
P(name) == [k |-> "var", v |-> name]

\* path_template.format(**template_vars) (scaffold.py:38, 50), as the
\* components that base_dir / rel_path then takes from it
format(path_template, kwargs) ==
    LET missing == \E i \in 1..Len(path_template) :
                       path_template[i].k = "var" /\ path_template[i].v \notin DOMAIN kwargs
        comps(i) == IF path_template[i].k = "lit" THEN <<path_template[i].v>>
                    ELSE PathParts(kwargs[path_template[i].v])
        RECURSIVE cat(_)
        cat(i) == IF i > Len(path_template) THEN <<>> ELSE comps(i) \o cat(i + 1)
    IN  IF missing THEN [err |-> "KeyError", rel |-> <<>>]
        ELSE [err |-> "", rel |-> cat(1)]

Entry(template, path) == [template |-> template, path |-> path]

\* mutant of MANIFEST: the .gitignore and tests/__init__.py entries left out
MANIFEST_short ==
    << Entry(pyproject_toml, <<L("pyproject.toml")>>),
       Entry(readme, <<L("README.md")>>),
       Entry(env_example, <<L(".env.example")>>),
       Entry(main_py, <<L("src"), P("module_name"), L("main.py")>>),
       Entry(config_py, <<L("src"), P("module_name"), L("config.py")>>),
       Entry(init_py, <<L("src"), P("module_name"), L("__init__.py")>>),
       Entry(action_handler, <<L("src"), L("actions"), L("hello_world"), L("handler.py")>>),
       Entry(action_schema, <<L("src"), L("actions"), L("hello_world"), L("schemas.py")>>),
       Entry(init_py, <<L("src"), L("actions"), L("__init__.py")>>),
       Entry(init_py, <<L("src"), L("actions"), L("hello_world"), L("__init__.py")>>),
       Entry(service_example, <<L("src"), L("services"), L("example_api.py")>>),
       Entry(init_py, <<L("src"), L("services"), L("__init__.py")>>),
       Entry(conftest_py, <<L("tests"), L("conftest.py")>>),
       Entry(test_example, <<L("tests"), L("test_hello_world.py")>>) >>

\* MANIFEST (templates/__init__.py:27-44)
MANIFEST ==
    << Entry(pyproject_toml, <<L("pyproject.toml")>>),
       Entry(readme, <<L("README.md")>>),
       Entry(gitignore, <<L(".gitignore")>>),
       Entry(env_example, <<L(".env.example")>>),
       Entry(main_py, <<L("src"), P("module_name"), L("main.py")>>),
       Entry(config_py, <<L("src"), P("module_name"), L("config.py")>>),
       Entry(init_py, <<L("src"), P("module_name"), L("__init__.py")>>),
       Entry(action_handler, <<L("src"), L("actions"), L("hello_world"), L("handler.py")>>),
       Entry(action_schema, <<L("src"), L("actions"), L("hello_world"), L("schemas.py")>>),
       Entry(init_py, <<L("src"), L("actions"), L("__init__.py")>>),
       Entry(init_py, <<L("src"), L("actions"), L("hello_world"), L("__init__.py")>>),
       Entry(service_example, <<L("src"), L("services"), L("example_api.py")>>),
       Entry(init_py, <<L("src"), L("services"), L("__init__.py")>>),
       Entry(conftest_py, <<L("tests"), L("conftest.py")>>),
       Entry(test_example, <<L("tests"), L("test_hello_world.py")>>),
       Entry(init_py, <<L("tests"), L("__init__.py")>>) >>

\* CLAUDE_MANIFEST (templates/__init__.py:47-50)
CLAUDE_MANIFEST ==
    << Entry(claude_md, <<L("CLAUDE.md")>>),
       Entry(claude_settings, <<L(".claude"), L("settings.json")>>) >>

\* COPILOT_MANIFEST (templates/__init__.py:52-54)
COPILOT_MANIFEST ==
    << Entry(copilot_md, <<L(".github"), L("copilot-instructions.md")>>) >>

\* mutant of ProviderManifest: the copilot branch appends to the claude
\* manifest instead of replacing it
ProviderManifestBoth(provider) ==
    IF provider = "claude" THEN CLAUDE_MANIFEST
    ELSE IF provider = "copilot" THEN CLAUDE_MANIFEST \o COPILOT_MANIFEST
    ELSE <<>>

\* mutant of ProviderManifest: a two-way branch, anything that is not
\* copilot takes the claude manifest
ProviderManifestElseClaude(provider) ==
    IF provider = "copilot" THEN COPILOT_MANIFEST ELSE CLAUDE_MANIFEST

\* the provider branch of create_project (scaffold.py:42-47)
ProviderManifest(provider) ==
    IF provider = "claude" THEN CLAUDE_MANIFEST
    ELSE IF provider = "copilot" THEN COPILOT_MANIFEST
    ELSE <<>>

\* ------------------------------------------------------------------------
\* Inputs
\* ------------------------------------------------------------------------
Alphabet == {"a", "B", "1", "_", "/", "."}

BoundedNames == UNION {[1..n -> Alphabet] : n \in 0..MaxLen}

ExMyService == <<"m", "y", "-", "s", "e", "r", "v", "i", "c", "e">>
ExMySpaceService == <<"M", "y", " ", "S", "e", "r", "v", "i", "c", "e">>
ExMyCoolService == <<"M", "y", "-", "C", "o", "o", "l", " ", "S", "e", "r", "v", "i", "c", "e">>
ExCamel == <<"M", "y", "S", "e", "r", "v", "i", "c", "e">>
ExDashed == <<"-", "m", "y", "-", "s", "e", "r", "v", "i", "c", "e", "-">>
ExValid == <<"m", "y", "_", "s", "e", "r", "v", "i", "c", "e">>
ExDots == <<".", ".", ".">>
ExEscape == <<".", ".", "/", "e", "s", "c", "a", "p", "e">>
ExDigits == <<"1", "2", "3", "-", "s", "e", "r", "v", "i", "c", "e">>
ExDoubleRun == <<"a", "_", "/", "B">>
ExAbsolute == <<"/", "a", "/", "b">>
ExBraces == <<"m", "y", "{", "s", "e", "r", "v", "i", "c", "e", "}">>
ExDollar == <<"$", "a", "$", "{", "b", "}">>
ExKeyword == <<"i", "m", "p", "o", "r", "t">>
ExActions == <<"a", "c", "t", "i", "o", "n", "s">>
ExQuotes == <<"m", "y", "\"", "\"", "\"", "s", "v", "c">>

Examples == {ExMyService, ExMySpaceService, ExMyCoolService, ExCamel, ExDashed,
             ExValid, ExDots, ExEscape, ExDigits, ExDoubleRun, ExAbsolute, ExBraces,
             ExDollar, ExKeyword, ExQuotes, ExActions}

RawNames == BoundedNames \cup Examples

\* DEFAULT_LIB_SOURCE (cli.py:13)
DEFAULT_LIB_SOURCE == <<"usvc-lib @ git+https://github.com/mcintyjp/microservice-lib.git">>

LibSources == {DEFAULT_LIB_SOURCE, <<"usvc-lib>=0.1">>}

\* choices of --provider (cli.py:37)
Providers == {"claude", "copilot"}

\* what the working directory holds at the target's place before the first run
PreStates == {"absent", "dir", "file"}

InitialTree(name, pre) ==
    LET target == Resolve(PathDiv(Cwd, _normalize_name(name)))
        notes == Cwd \o <<"notes.txt">>
        old == target \o <<"README.md">>
        base == {<<>>, <<"home">>, Cwd}
        there == IF target = Cwd \/ pre = "absent" THEN {}
                 ELSE IF pre = "dir" THEN {target, old} ELSE {target}
    IN  [q \in base \cup {notes} \cup there |->
            IF q = notes THEN File("notes", 0)
            ELSE IF q = old THEN File("old readme", 0)
            ELSE IF q = target /\ pre = "file" /\ target # Cwd THEN File("old file", 0)
            ELSE Dir]

\* ------------------------------------------------------------------------
\* Command lines and _parse_args (cli.py:25-56)
\* ------------------------------------------------------------------------

\* one option on the command line: given says whether a value follows it
Opt(o, v) == [opt |-> o, val |-> v, given |-> TRUE]
Flag(o) == [opt |-> o, val |-> <<>>, given |-> FALSE]

\* a --provider value that is none of the choices
BadProvider == <<"gemini">>

\* the command lines tried: the options in the order they are typed
Shapes ==
    {"plain", "no_name", "bad_provider", "name_without_value",
     "version_only", "version_first", "version_last",
     "version_then_bad_provider", "bad_provider_then_version",
     "name_without_value_then_version"}

CommandLine(shape, name, provider, lib, no_git) ==
    LET git == IF no_git THEN <<Flag("--no-git")>> ELSE <<>>
    IN  CASE shape = "plain" ->
                <<Opt("--name", name), Opt("--provider", <<provider>>),
                  Opt("--lib-source", lib)>> \o git
          [] shape = "no_name" -> <<Opt("--provider", <<provider>>)>> \o git
          [] shape = "bad_provider" ->
                <<Opt("--name", name), Opt("--provider", BadProvider)>> \o git
          [] shape = "name_without_value" ->
                <<Opt("--provider", <<provider>>), Flag("--name")>>
          [] shape = "version_only" -> <<Flag("--version")>>
          [] shape = "version_first" ->
                <<Flag("--version"), Opt("--name", name)>> \o git
          [] shape = "version_last" ->
                <<Opt("--name", name), Opt("--provider", <<provider>>)>> \o git
                    \o <<Flag("--version")>>
          [] shape = "version_then_bad_provider" ->
                <<Flag("--version"), Opt("--provider", BadProvider)>>
          [] shape = "bad_provider_then_version" ->
                <<Opt("--name", name), Opt("--provider", BadProvider),
                  Flag("--version")>>
          [] shape = "name_without_value_then_version" ->
                <<Flag("--name"), Flag("--version")>>

\* the names tried on the command lines that are not plain
ShapeNames == {ExMyService, ExDigits}

\* args before parse_args has returned
NoArgs == [name |-> <<>>, provider |-> "", lib_source |-> <<>>, no_git |-> FALSE]

\* the defaults of the optional arguments (cli.py:38, 43, 48)
DefaultArgs ==
    [name |-> <<>>, provider |-> "claude", lib_source |-> DEFAULT_LIB_SOURCE,
     no_git |-> FALSE]

\* mutant of ProviderAccepted: the choices are not enforced
ProviderAcceptedAny(value) == TRUE

\* choices=["claude", "copilot"] (cli.py:37)
ProviderAccepted(value) == Str(value) \in Providers

\* ArgumentParser.parse_args over the options from position i on: they are
\* taken left to right; --version, where the parser has it, prints and exits
\* when it is met; an option without its value, or a value outside the
\* choices, is an error where it is met; a missing required --name and an
\* option the parser does not know are errors once the line is consumed
RECURSIVE consume(_, _, _, _)
consume(line, i, ns, with_version) ==
    IF i > Len(line)
    THEN IF ~ns.seen_name THEN [status |-> "error", args |-> ns.args]
         ELSE IF ns.extras THEN [status |-> "error", args |-> ns.args]
         ELSE [status |-> "ok", args |-> ns.args]
    ELSE LET o == line[i]
         IN  IF o.opt = "--version"
             THEN IF with_version THEN [status |-> "version", args |-> ns.args]
                  ELSE consume(line, i + 1, [ns EXCEPT !.extras = TRUE], with_version)
             ELSE IF o.opt = "--no-git"
             THEN consume(line, i + 1, [ns EXCEPT !.args.no_git = TRUE], with_version)
             ELSE IF ~o.given THEN [status |-> "error", args |-> ns.args]
             ELSE IF o.opt = "--name"
             THEN consume(line, i + 1,
                          [ns EXCEPT !.args.name = o.val, !.seen_name = TRUE],
                          with_version)
             ELSE IF o.opt = "--provider"
             THEN IF ~ProviderAccepted(o.val)
                  THEN [status |-> "error", args |-> ns.args]
                  ELSE consume(line, i + 1,
                               [ns EXCEPT !.args.provider = Str(o.val)], with_version)
             ELSE consume(line, i + 1,
                          [ns EXCEPT !.args.lib_source = o.val], with_version)

Unparsed == [args |-> DefaultArgs, seen_name |-> FALSE, extras |-> FALSE]

\* mutant of _parse_args: --version is looked at only once the whole line
\* has been accepted
parse_args_version_last(line) ==
    LET rest == SelectSeq(line, LAMBDA o : o.opt # "--version")
        r == consume(rest, 1, Unparsed, TRUE)
    IN  IF r.status = "ok" /\ rest # line
        THEN [status |-> "version", args |-> r.args] ELSE r

\* _parse_args of create_microservice (cli.py:25-56), which has --version
_parse_args(line) == consume(line, 1, Unparsed, TRUE)

\* _parse_args of create_worker (create_worker/cli.py:24-50), which has none
worker_parse_args(line) == consume(line, 1, Unparsed, FALSE)

\* ------------------------------------------------------------------------
\* State
\* ------------------------------------------------------------------------
VARIABLES
    pc,                 \* where the run is in main / create_project
    cmdline,            \* the command line, as typed
    catalog,            \* the base manifest create_project walks
    disk,               \* the write of the run that the file system refuses
    argv,               \* the parsed command line (args of main)
    project_name,       \* main's local (cli.py:62)
    module_name,        \* main's local (cli.py:63)
    target_dir,         \* main's local (cli.py:72)
    config,             \* the ScaffoldConfig (cli.py:78-85)
    idx,                \* position of the manifest loop being run
    provider_manifest,  \* create_project's local (scaffold.py:42-47)
    git_step,           \* the subprocess.run call _git_init is at
    fs,                 \* the file system: path -> node
    fs0,                \* the file system when the current run started
    git_log,            \* the external commands started, with their outcome
    stdout,             \* what the run printed
    stderr,             \* what the run printed to the error stream
    exit_code,          \* the exit status, -1 while the run is going
    exc,                \* the exception that ended the run, "" for none
    called,             \* create_project has been invoked in this run
    run,                \* number of the current run
    history             \* the exit statuses of the earlier runs

locals == <<project_name, module_name, target_dir, config, idx, provider_manifest, git_step>>
output == <<git_log, stdout, stderr>>
ending == <<exit_code, exc>>
runs == <<cmdline, catalog, disk, argv, fs0, run, history>>
vars == <<pc, locals, fs, output, ending, called, runs>>

\* a file system that refuses no write
NoDisk == [at |-> 0, kind |-> "none"]

NoConfig ==
    [project_name |-> <<>>, module_name |-> <<>>, target_dir |-> <<>>,
     provider |-> "", usvc_lib_dependency |-> <<>>, init_git |-> FALSE]

\* a process just started in a working directory: nothing parsed, nothing run
Fresh(entry, tree) ==
    /\ argv = NoArgs
    /\ fs = tree
    /\ fs0 = tree
    /\ pc = entry
    /\ project_name = <<>>
    /\ module_name = <<>>
    /\ target_dir = <<>>
    /\ idx = 1
    /\ provider_manifest = <<>>
    /\ git_step = 1
    /\ git_log = <<>>
    /\ stdout = <<>>
    /\ stderr = <<>>
    /\ exit_code = -1
    /\ exc = ""
    /\ called = FALSE
    /\ run = 1
    /\ history = <<>>

\* create-microservice is started with some command line in some directory
Init ==
    \E shape \in Shapes, name \in RawNames, provider \in Providers,
       lib \in LibSources, no_git \in BOOLEAN, pre \in PreStates :
        /\ shape # "plain" =>
               name \in ShapeNames /\ lib = DEFAULT_LIB_SOURCE /\ pre # "file"
        /\ cmdline = CommandLine(shape, name, provider, lib, no_git)
        /\ catalog = MANIFEST
        /\ disk = NoDisk
        /\ config = NoConfig
        /\ Fresh("parse", InitialTree(name, pre))

\* ------------------------------------------------------------------------
\* _parse_args as main calls it (cli.py:60)
\* ------------------------------------------------------------------------

\* parser.error: usage on the error stream, exit status 2
ParseError ==
    /\ stderr' = Append(stderr, "usage")
    /\ exit_code' = 2
    /\ exc' = "SystemExit"
    /\ pc' = "done"
    /\ UNCHANGED <<argv, git_log, stdout>>

\* the version action: the version on the output stream, exit status 0
PrintVersion ==
    /\ stdout' = Append(stdout, "create-microservice version")
    /\ exit_code' = 0
    /\ exc' = "SystemExit"
    /\ pc' = "done"
    /\ UNCHANGED <<argv, git_log, stderr>>

\* args = _parse_args() (cli.py:60)
ParseArgs ==
    /\ pc = "parse"
    /\ LET r == _parse_args(cmdline)
       IN  IF r.status = "error" THEN ParseError
           ELSE IF r.status = "version" THEN PrintVersion
           ELSE /\ argv' = r.args
                /\ pc' = "start"
                /\ UNCHANGED <<output, ending>>
    /\ UNCHANGED <<locals, fs, called, cmdline, catalog, disk, fs0, run, history>>

\* ------------------------------------------------------------------------
\* main (cli.py:59-87)
\* ------------------------------------------------------------------------

\* sys.exit(1) after an error message
ExitError(msg) ==
    /\ stderr' = Append(stderr, msg)
    /\ exit_code' = 1
    /\ exc' = "SystemExit"
    /\ pc' = "done"

\* an exception nobody catches: traceback, exit status 1
Raise(e) ==
    /\ exit_code' = 1
    /\ exc' = e
    /\ pc' = "done"

\* mutant of Normalize: the run goes from normalization straight to the
\* target directory, the identifier check left out
NormalizeThenTarget ==
    /\ pc = "start"
    /\ project_name' = argv.name
    /\ module_name' = _normalize_name(argv.name)
    /\ pc' = "target"
    /\ UNCHANGED <<target_dir, config, idx, provider_manifest, git_step>>
    /\ UNCHANGED <<fs, output, ending, called, runs>>

\* cli.py:62-63
Normalize ==
    /\ pc = "start"
    /\ project_name' = argv.name
    /\ module_name' = _normalize_name(argv.name)
    /\ pc' = "validate"
    /\ UNCHANGED <<target_dir, config, idx, provider_manifest, git_step>>
    /\ UNCHANGED <<fs, output, ending, called, runs>>

\* cli.py:65-70
Validate ==
    /\ pc = "validate"
    /\ IF ~IsIdentifier(module_name)
       THEN /\ ExitError("invalid module name")
            /\ UNCHANGED <<git_log, stdout>>
       ELSE /\ pc' = "target"
            /\ UNCHANGED <<output, ending>>
    /\ UNCHANGED <<locals, fs, called, runs>>

\* mutant of TargetDir: the raw project name used for the directory
TargetDirRaw(project, module) == PathDiv(Cwd, project)

\* target_dir = Path.cwd() / module_name (cli.py:72)
TargetDir(project, module) == PathDiv(Cwd, module)

\* mutant of CheckTarget: the message is printed but sys.exit(1) is forgotten
CheckTargetNoExit ==
    /\ pc = "target"
    /\ target_dir' = TargetDir(project_name, module_name)
    /\ stderr' = IF Exists(fs, target_dir')
                 THEN Append(stderr, "directory already exists") ELSE stderr
    /\ pc' = "config"
    /\ UNCHANGED <<project_name, module_name, config, idx, provider_manifest, git_step>>
    /\ UNCHANGED <<fs, git_log, stdout, ending, called, runs>>

\* mutant of CheckTarget: the existence test made on the raw name's path
CheckTargetRawExists ==
    /\ pc = "target"
    /\ target_dir' = TargetDir(project_name, module_name)
    /\ IF Exists(fs, PathDiv(Cwd, project_name))
       THEN /\ ExitError("directory already exists")
            /\ UNCHANGED <<git_log, stdout>>
       ELSE /\ pc' = "config"
            /\ UNCHANGED <<output, ending>>
    /\ UNCHANGED <<project_name, module_name, config, idx, provider_manifest, git_step>>
    /\ UNCHANGED <<fs, called, runs>>

\* mutant of CheckTarget: is_file() asked in place of exists(), so that an
\* existing directory is let through
CheckTargetIsFile ==
    /\ pc = "target"
    /\ target_dir' = TargetDir(project_name, module_name)
    /\ IF Exists(fs, target_dir') /\ fs[Resolve(target_dir')].kind = "file"
       THEN /\ ExitError("directory already exists")
            /\ UNCHANGED <<git_log, stdout>>
       ELSE /\ pc' = "config"
            /\ UNCHANGED <<output, ending>>
    /\ UNCHANGED <<project_name, module_name, config, idx, provider_manifest, git_step>>
    /\ UNCHANGED <<fs, called, runs>>

\* cli.py:72-76
CheckTarget ==
    /\ pc = "target"
    /\ target_dir' = TargetDir(project_name, module_name)
    /\ IF Exists(fs, target_dir')
       THEN /\ ExitError("directory already exists")
            /\ UNCHANGED <<git_log, stdout>>
       ELSE /\ pc' = "config"
            /\ UNCHANGED <<output, ending>>
    /\ UNCHANGED <<project_name, module_name, config, idx, provider_manifest, git_step>>
    /\ UNCHANGED <<fs, called, runs>>

\* cli.py:78-87: the ScaffoldConfig is built and create_project is entered
BuildConfig ==
    /\ pc = "config"
    /\ config' = [project_name |-> project_name,
                  module_name |-> module_name,
                  target_dir |-> target_dir,
                  provider |-> argv.provider,
                  usvc_lib_dependency |-> argv.lib_source,
                  init_git |-> ~argv.no_git]
    /\ called' = TRUE
    /\ idx' = 1
    /\ pc' = "write_base"
    /\ UNCHANGED <<project_name, module_name, target_dir, provider_manifest, git_step>>
    /\ UNCHANGED <<fs, output, ending, runs>>

\* ------------------------------------------------------------------------
\* create_project (scaffold.py:29-65)
\* ------------------------------------------------------------------------

\* scaffold.py:31-35
template_vars(c) ==
    [project_name |-> c.project_name,
     module_name |-> c.module_name,
     usvc_lib_dependency |-> c.usvc_lib_dependency]

\* one turn of a manifest loop (scaffold.py:37-40, 49-52): the path is
\* formatted, the content rendered and the file written; after the last
\* entry the run goes on at `after`
\* mutant of WriteEntry: an OSError of _write_file is swallowed and the loop
\* goes on with the next entry
WriteEntryCarriesOn(manifest, here, after) ==
    LET entry == manifest[idx]
        tv == template_vars(config)
        f == format(entry.path, tv)
        r == render(entry.template, tv)
        w == _write_file(fs, config.target_dir, f.rel, r.text, run)
        nth == IF here = "write_base" THEN idx ELSE Len(catalog) + idx
    IN  IF f.err # "" \/ r.err # "" \/ w.err # ""
        THEN Raise("KeyError") /\ UNCHANGED <<fs, idx>>
        ELSE /\ fs' = IF disk.at = nth THEN fs ELSE w.tree
             /\ idx' = idx + 1
             /\ pc' = IF idx = Len(manifest) THEN after ELSE here
             /\ UNCHANGED ending

\* mutant of WriteEntry: the manifest is walked from its last entry to its
\* first
WriteEntryBackwards(manifest, here, after) ==
    LET entry == manifest[Len(manifest) + 1 - idx]
        tv == template_vars(config)
        f == format(entry.path, tv)
        r == render(entry.template, tv)
        w == _write_file(fs, config.target_dir, f.rel, r.text, run)
    IN  IF f.err # "" \/ r.err # "" \/ w.err # ""
        THEN Raise("KeyError") /\ UNCHANGED <<fs, idx>>
        ELSE /\ fs' = w.tree
             /\ idx' = idx + 1
             /\ pc' = IF idx = Len(manifest) THEN after ELSE here
             /\ UNCHANGED ending

\* an OSError (disk full, quota, permissions) can come out of the mkdir of
\* _write_file, leaving nothing of the entry, or out of its write_text,
\* leaving the directories and the file cut short
WriteEntry(manifest, here, after) ==
    LET entry == manifest[idx]
        tv == template_vars(config)
        f == format(entry.path, tv)
        r == render(entry.template, tv)
        w == _write_file(fs, config.target_dir, f.rel, r.text, run)
        nth == IF here = "write_base" THEN idx ELSE Len(catalog) + idx
        cut == _write_file(fs, config.target_dir, f.rel, "", run)
    IN  IF f.err # ""
        THEN Raise(f.err) /\ UNCHANGED <<fs, idx>>
        ELSE IF r.err # ""
        THEN Raise(r.err) /\ UNCHANGED <<fs, idx>>
        ELSE IF disk.at = nth /\ disk.kind = "mkdir"
        THEN Raise("OSError") /\ UNCHANGED <<fs, idx>>
        ELSE IF disk.at = nth /\ disk.kind = "write"
        THEN Raise("OSError") /\ fs' = cut.tree /\ UNCHANGED idx
        ELSE IF w.err # ""
        THEN Raise(w.err) /\ fs' = w.tree /\ UNCHANGED idx
        ELSE /\ fs' = w.tree
             /\ idx' = idx + 1
             /\ pc' = IF idx = Len(manifest) THEN after ELSE here
             /\ UNCHANGED ending

\* scaffold.py:37-40
WriteBase ==
    /\ pc = "write_base"
    /\ WriteEntry(catalog, "write_base", "select_provider")
    /\ UNCHANGED <<project_name, module_name, target_dir, config, provider_manifest, git_step>>
    /\ UNCHANGED <<output, called, runs>>

\* mutant of SelectProvider: an unknown provider is replaced in the config
\* by the default one
SelectProviderDefaulting ==
    /\ pc = "select_provider"
    /\ config' = IF config.provider \in Providers THEN config
                  ELSE [config EXCEPT !.provider = "claude"]
    /\ provider_manifest' = ProviderManifest(config'.provider)
    /\ idx' = 1
    /\ pc' = "write_provider"
    /\ UNCHANGED <<project_name, module_name, target_dir, git_step>>
    /\ UNCHANGED <<fs, output, ending, called, runs>>

\* scaffold.py:42-47
SelectProvider ==
    /\ pc = "select_provider"
    /\ provider_manifest' = ProviderManifest(config.provider)
    /\ idx' = 1
    /\ pc' = IF Len(ProviderManifest(config.provider)) = 0
             THEN "copy_env" ELSE "write_provider"
    /\ UNCHANGED <<project_name, module_name, target_dir, config, git_step>>
    /\ UNCHANGED <<fs, output, ending, called, runs>>

\* scaffold.py:49-52
WriteProvider ==
    /\ pc = "write_provider"
    /\ WriteEntry(provider_manifest, "write_provider", "copy_env")
    /\ UNCHANGED <<project_name, module_name, target_dir, config, provider_manifest, git_step>>
    /\ UNCHANGED <<output, called, runs>>

\* mutant of CopyEnv: _git_init is called whatever init_git says
CopyEnvAlwaysGit ==
    /\ pc = "copy_env"
    /\ LET env_example_path == config.target_dir \o <<".env.example">>
           env_file == config.target_dir \o <<".env">>
       IN  fs' = IF Exists(fs, env_example_path)
                 THEN copy2(fs, env_example_path, env_file, run)
                 ELSE fs
    /\ git_step' = 1
    /\ pc' = "git"
    /\ UNCHANGED <<project_name, module_name, target_dir, config, idx, provider_manifest>>
    /\ UNCHANGED <<output, ending, called, runs>>

\* scaffold.py:54-62: .env.example is copied to .env, then the git branch
CopyEnv ==
    /\ pc = "copy_env"
    /\ LET env_example_path == config.target_dir \o <<".env.example">>
           env_file == config.target_dir \o <<".env">>
       IN  fs' = IF Exists(fs, env_example_path)
                 THEN copy2(fs, env_example_path, env_file, run)
                 ELSE fs
    /\ git_step' = 1
    /\ pc' = IF config.init_git THEN "git" ELSE "report"
    /\ UNCHANGED <<project_name, module_name, target_dir, config, idx, provider_manifest>>
    /\ UNCHANGED <<output, ending, called, runs>>

\* ------------------------------------------------------------------------
\* _git_init (scaffold.py:75-87)
\* ------------------------------------------------------------------------
GitCommands == <<"init", "add", "commit">>

\* how one subprocess.run(..., check=True) can end: the command exits 0; it
\* exits non-zero (CalledProcessError); no git executable is found
\* (FileNotFoundError); the executable found cannot be executed
\* (PermissionError, an OSError that is no FileNotFoundError)
GitOutcomes == {"ok", "CalledProcessError", "FileNotFoundError", "PermissionError"}

\* the except clause (scaffold.py:86)
Caught == {"CalledProcessError", "FileNotFoundError"}

\* one subprocess.run of the try block, with the except clause
GitStep ==
    /\ pc = "git"
    /\ \E out \in GitOutcomes :
        /\ git_log' = Append(git_log, <<GitCommands[git_step], out>>)
        /\ IF out = "ok"
           THEN /\ fs' = IF git_step = 1
                         THEN MkdirParents(fs, config.target_dir \o <<".git">>).tree
                         ELSE fs
                /\ git_step' = git_step + 1
                /\ pc' = IF git_step = Len(GitCommands) THEN "report" ELSE "git"
                /\ UNCHANGED <<stdout, stderr, ending>>
           ELSE IF out \in Caught
           THEN /\ stderr' = Append(stderr, "Warning: git init failed")
                /\ pc' = "report"
                /\ UNCHANGED <<fs, git_step, stdout, ending>>
           ELSE /\ Raise(out)
                /\ UNCHANGED <<fs, git_step, stdout, stderr>>
    /\ UNCHANGED <<project_name, module_name, target_dir, config, idx, provider_manifest>>
    /\ UNCHANGED <<called, runs>>

\* _print_next_steps (scaffold.py:90-99), then main returns: exit status 0
PrintNextSteps ==
    /\ pc = "report"
    /\ stdout' = Append(stdout, "Created project")
    /\ exit_code' = 0
    /\ pc' = "done"
    /\ UNCHANGED <<locals, fs, git_log, stderr, exc, called, runs>>

\* the same command line is run again in the same working directory
RerunAt(entry) ==
    /\ pc = "done"
    /\ run < MaxRuns
    /\ run' = run + 1
    /\ history' = Append(history, exit_code)
    /\ fs0' = fs
    /\ pc' = entry
    /\ argv' = NoArgs
    /\ project_name' = <<>>
    /\ module_name' = <<>>
    /\ target_dir' = <<>>
    /\ config' = NoConfig
    /\ idx' = 1
    /\ provider_manifest' = <<>>
    /\ git_step' = 1
    /\ git_log' = <<>>
    /\ stdout' = <<>>
    /\ stderr' = <<>>
    /\ exit_code' = -1
    /\ exc' = ""
    /\ called' = FALSE
    /\ UNCHANGED <<cmdline, catalog, disk, fs>>

Rerun == RerunAt("parse")

Next ==
    \/ ParseArgs
    \/ Normalize
    \/ Validate
    \/ CheckTarget
    \/ BuildConfig
    \/ WriteBase
    \/ SelectProvider
    \/ WriteProvider
    \/ CopyEnv
    \/ GitStep
    \/ PrintNextSteps
    \/ Rerun

Spec == Init /\ [][Next]_vars

\* ------------------------------------------------------------------------
\* create_microservice run again under another name (cli.py:59-87)
\* ------------------------------------------------------------------------
RenamedNames == {ExMyService, ExMySpaceService, ExDashed, ExCamel}

\* the command line with another value for --name
WithName(line, name) ==
    [i \in 1..Len(line) |->
        IF line[i].opt = "--name" THEN [line[i] EXCEPT !.val = name] ELSE line[i]]

\* create-microservice is started with --name and the other options in a
\* working directory that may hold the directory already
RenamedInit ==
    \E name \in RenamedNames, provider \in Providers, no_git \in BOOLEAN,
       pre \in {"absent", "dir"} :
        /\ cmdline = CommandLine("plain", name, provider, DEFAULT_LIB_SOURCE, no_git)
        /\ catalog = MANIFEST
        /\ disk = NoDisk
        /\ config = NoConfig
        /\ Fresh("parse", InitialTree(name, pre))

\* the tool is run again in the same working directory with another name
RerunRenamed ==
    /\ pc = "done"
    /\ run < MaxRuns
    /\ \E name \in RenamedNames :
           /\ \A i \in 1..Len(cmdline) :
                  cmdline[i].opt = "--name" => cmdline[i].val # name
           /\ cmdline' = WithName(cmdline, name)
    /\ run' = run + 1
    /\ history' = Append(history, exit_code)
    /\ fs0' = fs
    /\ pc' = "parse"
    /\ argv' = NoArgs
    /\ project_name' = <<>>
    /\ module_name' = <<>>
    /\ target_dir' = <<>>
    /\ config' = NoConfig
    /\ idx' = 1
    /\ provider_manifest' = <<>>
    /\ git_step' = 1
    /\ git_log' = <<>>
    /\ stdout' = <<>>
    /\ stderr' = <<>>
    /\ exit_code' = -1
    /\ exc' = ""
    /\ called' = FALSE
    /\ UNCHANGED <<catalog, disk, fs>>

RenamedNext ==
    \/ Next
    \/ RerunRenamed

SpecRenamed == RenamedInit /\ [][RenamedNext]_vars

\* ------------------------------------------------------------------------
\* create_worker: main (create_worker/cli.py:53-73)
\* ------------------------------------------------------------------------
ExExisting == <<"e", "x", "i", "s", "t", "i", "n", "g", "-",
                "p", "r", "o", "j", "e", "c", "t">>

WorkerNames == Examples \cup {ExExisting}

\* what the working directory holds before create-worker runs: nothing of
\* the project, a directory of the normalized name, or one of the raw name
WorkerPreStates == {"absent", "normalized", "raw"}

WorkerInitialTree(name, pre) ==
    LET norm == Resolve(PathDiv(Cwd, _normalize_name(name)))
        raw == Resolve(PathDiv(Cwd, name))
        notes == Cwd \o <<"notes.txt">>
        base == {<<>>, <<"home">>, Cwd}
        there == IF pre = "normalized" THEN {norm}
                 ELSE IF pre = "raw" THEN Prefixes(raw) ELSE {}
    IN  [q \in base \cup {notes} \cup there |->
            IF q = notes THEN File("notes", 0) ELSE Dir]

WorkerShapes == {"plain", "no_name", "bad_provider", "version_only"}

\* create-worker is started with some command line in some directory
WorkerInit ==
    \E shape \in WorkerShapes, name \in WorkerNames, provider \in Providers,
       no_git \in BOOLEAN, pre \in WorkerPreStates :
        /\ shape # "plain" => name \in ShapeNames /\ pre = "absent"
        /\ cmdline = CommandLine(shape, name, provider, DEFAULT_LIB_SOURCE, no_git)
        /\ catalog = MANIFEST
        /\ disk = NoDisk
        /\ config = NoConfig
        /\ Fresh("w_parse", WorkerInitialTree(name, pre))

\* args = _parse_args(argv) (create_worker/cli.py:54)
WorkerParseArgs ==
    /\ pc = "w_parse"
    /\ LET r == worker_parse_args(cmdline)
       IN  IF r.status = "error" THEN ParseError
           ELSE /\ argv' = r.args
                /\ pc' = "w_start"
                /\ UNCHANGED <<output, ending>>
    /\ UNCHANGED <<locals, fs, called, cmdline, catalog, disk, fs0, run, history>>

\* create_worker/cli.py:56-58
WorkerNormalize ==
    /\ pc = "w_start"
    /\ project_name' = argv.name
    /\ module_name' = _normalize_name(argv.name)
    /\ target_dir' = PathDiv(Cwd, argv.name)
    /\ pc' = "w_target"
    /\ UNCHANGED <<config, idx, provider_manifest, git_step>>
    /\ UNCHANGED <<fs, output, ending, called, runs>>

\* create_worker/cli.py:60-62
WorkerCheckTarget ==
    /\ pc = "w_target"
    /\ IF Exists(fs, target_dir)
       THEN /\ ExitError("directory already exists")
            /\ UNCHANGED <<git_log, stdout>>
       ELSE /\ pc' = "w_config"
            /\ UNCHANGED <<output, ending>>
    /\ UNCHANGED <<locals, fs, called, runs>>

\* create_worker/cli.py:64-73
WorkerBuildConfig ==
    /\ pc = "w_config"
    /\ config' = [project_name |-> project_name,
                  module_name |-> module_name,
                  target_dir |-> target_dir,
                  provider |-> argv.provider,
                  usvc_lib_dependency |-> argv.lib_source,
                  init_git |-> ~argv.no_git]
    /\ called' = TRUE
    /\ idx' = 1
    /\ pc' = "write_base"
    /\ UNCHANGED <<project_name, module_name, target_dir, provider_manifest, git_step>>
    /\ UNCHANGED <<fs, output, ending, runs>>

\* create_project of create_worker.scaffold, the same pipeline as
\* create_microservice's
WorkerCreateProject ==
    \/ WriteBase
    \/ SelectProvider
    \/ WriteProvider
    \/ CopyEnv
    \/ GitStep
    \/ PrintNextSteps

WorkerRerun == RerunAt("w_parse")

WorkerNext ==
    \/ WorkerParseArgs
    \/ WorkerNormalize
    \/ WorkerCheckTarget
    \/ WorkerBuildConfig
    \/ WorkerCreateProject
    \/ WorkerRerun

SpecWorker == WorkerInit /\ [][WorkerNext]_vars

\* ------------------------------------------------------------------------
\* create_project called directly with a ScaffoldConfig (scaffold.py:19-65)
\* ------------------------------------------------------------------------
ExTestService == <<"t", "e", "s", "t", "-", "s", "e", "r", "v", "i", "c", "e">>

\* the provider field is a plain str: any value can be put in it
ConfigProviders == {"claude", "copilot", "cursor"}

\* a template whose content uses a placeholder create_project does not supply
unknown_content == << T("Written by "), V("author"), T("\n") >>

\* MANIFEST with one more entry after its first three
WithEntry(entry) == SubSeq(MANIFEST, 1, 3) \o <<entry>> \o SubSeq(MANIFEST, 4, Len(MANIFEST))

\* the catalogues create_project is run over: the one of the package, one
\* with an unsupplied placeholder in a template's content, one with an
\* unsupplied placeholder in a destination-path pattern
CatalogUnknownContent == WithEntry(Entry(unknown_content, <<L("AUTHORS")>>))
CatalogUnknownPath == WithEntry(Entry(init_py, <<L("src"), P("package"), L("__init__.py")>>))
Catalogs == {MANIFEST, CatalogUnknownContent, CatalogUnknownPath}

\* the writes of a run tried as the one that fails: the first, one in the
\* middle of the base manifest, its last, and the first of a provider manifest
FailPoints == {1, 5, Len(MANIFEST), Len(MANIFEST) + 1}

Disks == {NoDisk} \cup {[at |-> k, kind |-> m] : k \in FailPoints, m \in {"mkdir", "write"}}

ConfigTarget == Cwd \o <<"test-service">>

\* the working directory of the caller: the target absent, an empty
\* directory, a directory in use (a README.md and a file of the user's in
\* it), or a regular file
ConfigPreStates == {"absent", "dir", "used", "file"}

ConfigTree(pre) ==
    LET base == {<<>>, <<"home">>, Cwd}
        notes == Cwd \o <<"notes.txt">>
        old == ConfigTarget \o <<"README.md">>
        keep == ConfigTarget \o <<"keep.txt">>
        there == IF pre = "absent" THEN {}
                 ELSE IF pre = "used" THEN {ConfigTarget, old, keep}
                 ELSE {ConfigTarget}
    IN  [q \in base \cup {notes} \cup there |->
            IF q = notes THEN File("notes", 0)
            ELSE IF q = old THEN File("old readme", 0)
            ELSE IF q = keep THEN File("kept", 0)
            ELSE IF q = ConfigTarget /\ pre = "file" THEN File("old file", 0)
            ELSE Dir]

\* a caller has built a ScaffoldConfig (the one of the test fixture, with
\* the default provider and either init_git) and is about to call
\* create_project
ConfigInit ==
    \E provider \in {"claude"}, lib \in LibSources, init_git \in BOOLEAN,
       cat \in Catalogs, pre \in ConfigPreStates, d \in Disks :
        /\ cmdline = <<>>
        /\ catalog = cat
        /\ disk = d
        /\ Fresh("call", ConfigTree(pre))
        /\ config = [project_name |-> ExTestService,
                     module_name |-> _normalize_name(ExTestService),
                     target_dir |-> ConfigTarget,
                     provider |-> provider,
                     usvc_lib_dependency |-> lib,
                     init_git |-> init_git]

\* create_project(config) is entered (scaffold.py:29-35)
CallCreateProject ==
    /\ pc = "call"
    /\ called' = TRUE
    /\ idx' = 1
    /\ pc' = "write_base"
    /\ UNCHANGED <<project_name, module_name, target_dir, config, provider_manifest, git_step>>
    /\ UNCHANGED <<fs, output, ending, runs>>

\* the caller assigns to a field of the config before the call, as
\* config.provider = "copilot" does: ScaffoldConfig is a dataclass that is
\* not frozen (scaffold.py:19-20)
AssignField ==
    /\ pc = "call"
    /\ \E provider \in ConfigProviders :
           /\ provider # config.provider
           /\ config' = [config EXCEPT !.provider = provider]
    /\ UNCHANGED <<pc, project_name, module_name, target_dir, idx, provider_manifest, git_step>>
    /\ UNCHANGED <<fs, output, ending, called, runs>>

ConfigNext ==
    \/ AssignField
    \/ CallCreateProject
    \/ WriteBase
    \/ SelectProvider
    \/ WriteProvider
    \/ CopyEnv
    \/ GitStep
    \/ PrintNextSteps

SpecConfig == ConfigInit /\ [][ConfigNext]_vars

\* ------------------------------------------------------------------------
\* Properties
\* ------------------------------------------------------------------------

\* the paths created, removed or rewritten between two file systems
Changed(before, after) ==
    {q \in DOMAIN after : q \notin DOMAIN before \/ after[q] # before[q]}
        \cup {q \in DOMAIN before : q \notin DOMAIN after}

\* the raw --name of the command line, empty when there is none
RawName ==
    LET named == SelectSeq(cmdline, LAMBDA o : o.opt = "--name")
    IN  IF named = <<>> THEN <<>> ELSE named[1].val

\* the command line is one that _parse_args of create_microservice accepts
Parsed == _parse_args(cmdline).status = "ok"

\* the --provider the command line asks for
AskedProvider == _parse_args(cmdline).args.provider

\* the normalized form of the raw name on the command line
Normalized == _normalize_name(RawName)

\* current_working_directory / normalized name, component by component
NormalizedTarget == IF Normalized = <<>> THEN Cwd ELSE Cwd \o <<Str(Normalized)>>

\* the normalized name is empty or begins with a digit
Rejected == Normalized = <<>> \/ Head(Normalized) \in DigitSet

\* create_project has returned: the completion report is out and main
\* ended with status 0
Completed == pc = "done" /\ called /\ exit_code = 0 /\ stdout # <<>>

\* C1: a raw name whose normalized form is empty or begins with a digit ends
\* the run with exit status 1, with no change to the file system and without
\* create_project being invoked.
C1_InvalidNameRejected ==
    (Parsed /\ Rejected) =>
        /\ fs = fs0
        /\ ~called
        /\ pc \in {"parse", "start", "validate", "done"}
        /\ (pc = "done" => exit_code = 1)

C1_Witness ==
    /\ pc = "done"
    /\ exit_code = 1
    /\ Normalized # <<>>
    /\ Head(Normalized) \in DigitSet
    /\ NormalizedTarget \notin DOMAIN fs

\* C2: when cwd/module_name exists at the start of the run, the run ends with
\* exit status 1 and the file system stays exactly as it was.
C2_ExistingTargetRejected ==
    (Parsed /\ NormalizedTarget \in DOMAIN fs0) =>
        /\ fs = fs0
        /\ (pc = "done" => exit_code = 1)

C2_Witness ==
    /\ pc = "done"
    /\ run = 1
    /\ exit_code = 1
    /\ IsIdentifier(module_name)
    /\ NormalizedTarget \in DOMAIN fs0
    /\ fs0[NormalizedTarget].kind = "dir"
    /\ Normalized # RawName

\* C3: whatever the raw name, everything a run creates or changes lies inside
\* cwd/module_name, and that directory is a direct child of the working
\* directory.
C3_WritesStayInsideTarget ==
    /\ \A q \in Changed(fs0, fs) : IsPrefix(NormalizedTarget, q)
    /\ called =>
        /\ Len(Resolve(config.target_dir)) = Len(Cwd) + 1
        /\ IsPrefix(Cwd, Resolve(config.target_dir))

C3_Witness ==
    /\ RawName = ExEscape
    /\ pc = "done"
    /\ exit_code = 0
    /\ Cwd \o <<"escape", "pyproject.toml">> \in DOMAIN fs
    /\ <<"home", "escape">> \notin DOMAIN fs
    /\ Changed(fs0, fs) # {}

\* C4: the normalized name has only characters of [a-z0-9_], neither begins
\* nor ends with an underscore and has no two adjacent underscores.
C4_NormalizedShape ==
    (Parsed /\ pc \notin {"parse", "start"}) =>
        /\ \A i \in 1..Len(module_name) :
               module_name[i] \in LowerSet \cup DigitSet \cup {"_"}
        /\ module_name # <<>> =>
               module_name[1] # "_" /\ module_name[Len(module_name)] # "_"
        /\ \A i \in 1..(Len(module_name) - 1) :
               ~(module_name[i] = "_" /\ module_name[i + 1] = "_")

C4_Witness ==
    /\ pc = "validate"
    /\ RawName = ExDashed
    /\ module_name = <<"m", "y", "_", "s", "e", "r", "v", "i", "c", "e">>

\* the reference procedure of C5, position by position: of the lower-cased
\* name keep every character of [a-z0-9], and the first character of a run
\* of others as "_" when the run has a kept character somewhere before it
\* and somewhere after it
Reference(s) ==
    LET low == [i \in 1..Len(s) |-> Lower(s[i])]
        alnum(i) == low[i] \in LowerSet \cup DigitSet
        keep(i) ==
            \/ alnum(i)
            \/ /\ i > 1
               /\ alnum(i - 1)
               /\ \E j \in (i + 1)..Len(s) : alnum(j)
        kept == SelectSeq([i \in 1..Len(s) |-> i], keep)
    IN  [j \in 1..Len(kept) |-> IF alnum(kept[j]) THEN low[kept[j]] ELSE "_"]

\* C5: the normalized name is what the reference procedure yields (lower-case,
\* every maximal run of characters outside [a-z0-9] replaced by one
\* underscore, leading and trailing underscores removed), with the values the
\* examples give.
C5_NormalizeMatchesReference ==
    (Parsed /\ pc \notin {"parse", "start"}) =>
        /\ module_name = Reference(RawName)
        /\ RawName \in {ExMyService, ExMySpaceService, ExDashed, ExValid} =>
               module_name = <<"m", "y", "_", "s", "e", "r", "v", "i", "c", "e">>
        /\ RawName = ExMyCoolService =>
               module_name = <<"m", "y", "_", "c", "o", "o", "l", "_",
                               "s", "e", "r", "v", "i", "c", "e">>
        /\ RawName = ExCamel =>
               module_name = <<"m", "y", "s", "e", "r", "v", "i", "c", "e">>
        /\ RawName = ExDots => module_name = <<>>

C5_Witness ==
    /\ pc = "validate"
    /\ RawName = ExDoubleRun
    /\ module_name = <<"a", "_", "b">>

\* C6: once a run has succeeded, running the same command again in the same
\* working directory ends with exit status 1 and leaves every file and
\* directory as the first run left it.
C6_SecondRunRejected ==
    (Parsed /\ \E k \in 1..Len(history) : history[k] = 0) =>
        /\ fs = fs0
        /\ (pc = "done" => exit_code = 1)

C6_Witness ==
    /\ run = 2
    /\ history = <<0>>
    /\ pc = "done"
    /\ exit_code = 1
    /\ NormalizedTarget \o <<"pyproject.toml">> \in DOMAIN fs
    /\ fs[NormalizedTarget \o <<"pyproject.toml">>].gen = 1

\* C7: after create_project completes, provider claude has left CLAUDE.md and
\* .claude/settings.json and no .github/copilot-instructions.md; provider
\* copilot has left .github/copilot-instructions.md and neither CLAUDE.md nor
\* .claude.
C7_ProviderFiles ==
    Completed =>
        LET claude_md_path == NormalizedTarget \o <<"CLAUDE.md">>
            claude_dir == NormalizedTarget \o <<".claude">>
            settings_path == NormalizedTarget \o <<".claude", "settings.json">>
            copilot_path == NormalizedTarget \o <<".github", "copilot-instructions.md">>
        IN  /\ AskedProvider = "claude" =>
                /\ claude_md_path \in DOMAIN fs
                /\ settings_path \in DOMAIN fs
                /\ copilot_path \notin DOMAIN fs
            /\ AskedProvider = "copilot" =>
                /\ copilot_path \in DOMAIN fs
                /\ claude_md_path \notin DOMAIN fs
                /\ claude_dir \notin DOMAIN fs

C7_Witness ==
    /\ Completed
    /\ AskedProvider = "copilot"
    /\ NormalizedTarget \o <<".github", "copilot-instructions.md">> \in DOMAIN fs
    /\ NormalizedTarget \o <<"CLAUDE.md">> \notin DOMAIN fs

\* C8: after create_project completes, .env exists with exactly the content of
\* .env.example, which is the env_example template with the raw project name
\* put in.
C8_EnvIsCopyOfExample ==
    Completed =>
        LET env_path == NormalizedTarget \o <<".env">>
            example_path == NormalizedTarget \o <<".env.example">>
        IN  /\ env_path \in DOMAIN fs
            /\ example_path \in DOMAIN fs
            /\ fs[env_path].kind = "file"
            /\ fs[env_path].content = fs[example_path].content
            /\ fs[env_path].content =
                   "# " \o Str(RawName) \o " configuration\nMICROSERVICE_NAME="
                        \o Str(RawName) \o "\n\nDEV_MODE=true\n..."

C8_Witness ==
    /\ Completed
    /\ RawName = ExMySpaceService
    /\ fs[NormalizedTarget \o <<".env">>].content =
           "# My Service configuration\nMICROSERVICE_NAME=My Service\n\nDEV_MODE=true\n..."

\* C9: with init_git set, a failure of any of the three git steps (non-zero
\* exit, or git cannot be started) is caught inside _git_init: the completion
\* report is still printed, the files written stay, and the exit status is 0.
C9_GitFailureIsNotFatal ==
    (/\ pc = "done"
     /\ called
     /\ \E k \in 1..Len(git_log) : git_log[k][2] # "ok") =>
        /\ exit_code = 0
        /\ stdout # <<>>
        /\ NormalizedTarget \o <<"pyproject.toml">> \in DOMAIN fs

\* the files test_creates_directory_tree expects, for module name m
ExpectedFiles(m) ==
    { <<"pyproject.toml">>, <<"README.md">>, <<".gitignore">>, <<".env.example">>,
      <<".env">>,
      <<"src", m, "main.py">>, <<"src", m, "config.py">>, <<"src", m, "__init__.py">>,
      <<"src", "actions", "__init__.py">>,
      <<"src", "actions", "hello_world", "__init__.py">>,
      <<"src", "actions", "hello_world", "handler.py">>,
      <<"src", "actions", "hello_world", "schemas.py">>,
      <<"src", "services", "__init__.py">>,
      <<"src", "services", "example_api.py">>,
      <<"tests", "__init__.py">>, <<"tests", "conftest.py">>,
      <<"tests", "test_hello_world.py">> }

\* C10: after create_project completes, for either provider, the target
\* directory holds every file of the expected tree.
C10_FullTreeWritten ==
    Completed =>
        \A rel \in ExpectedFiles(Str(Normalized)) :
            /\ NormalizedTarget \o rel \in DOMAIN fs
            /\ fs[NormalizedTarget \o rel].kind = "file"

C10_Witness ==
    /\ Completed
    /\ RawName = ExMyService
    /\ AskedProvider = "claude"
    /\ Cwd \o <<"my_service", "src", "my_service", "main.py">> \in DOMAIN fs
    /\ Cwd \o <<"my_service", "tests", "__init__.py">> \in DOMAIN fs

\* C11: a create_microservice run whose arguments parse ends with exit status
\* 1 exactly when the normalized name is no valid identifier or the target
\* directory was there when the run started; every other run ends with
\* status 0 and the full tree written.
C11_ExitStatusOneIffRejected ==
    (Parsed /\ pc = "done") =>
        LET refused == ~IsIdentifier(Normalized) \/ NormalizedTarget \in DOMAIN fs0
        IN  /\ exit_code = 1 <=> refused
            /\ ~refused =>
                   /\ exit_code = 0
                   /\ \A rel \in ExpectedFiles(Str(Normalized)) :
                          NormalizedTarget \o rel \in DOMAIN fs

\* the entries of the three manifests
AllEntries ==
    {MANIFEST[i] : i \in 1..Len(MANIFEST)}
        \cup {CLAUDE_MANIFEST[i] : i \in 1..Len(CLAUDE_MANIFEST)}
        \cup {COPILOT_MANIFEST[i] : i \in 1..Len(COPILOT_MANIFEST)}

WorkerParsed == worker_parse_args(cmdline).status = "ok"

\* C13: create_worker's main uses cwd/normalize(name) as the project
\* directory: with that directory present the run ends with exit status 1 and
\* changes nothing; otherwise the project is created there, and nothing is
\* created at cwd/raw-name or outside the working directory.
C13_WorkerUsesNormalizedDirectory ==
    (WorkerParsed /\ IsIdentifier(Normalized)) =>
        /\ NormalizedTarget \in DOMAIN fs0 =>
               /\ fs = fs0
               /\ (pc = "done" => exit_code = 1)
        /\ \A q \in Changed(fs0, fs) : IsPrefix(NormalizedTarget, q)
        /\ Completed => NormalizedTarget \o <<"pyproject.toml">> \in DOMAIN fs

\* C14: create_worker's main ends with exit status 1, and scaffolds nothing,
\* for a raw name whose normalized form is empty or begins with a digit.
C14_WorkerRejectsInvalidName ==
    (WorkerParsed /\ Rejected) =>
        /\ fs = fs0
        /\ ~called
        /\ (pc = "done" => exit_code = 1)

\* no --name with a value is on the command line
MissingName == ~\E i \in 1..Len(cmdline) : cmdline[i].opt = "--name" /\ cmdline[i].given

\* a --provider other than claude or copilot is on the command line
InvalidProvider ==
    \E i \in 1..Len(cmdline) :
        /\ cmdline[i].opt = "--provider"
        /\ cmdline[i].given
        /\ Str(cmdline[i].val) \notin {"claude", "copilot"}

\* the option is one the parser refuses where it stands
Offends(o) ==
    \/ o.opt \in {"--name", "--provider", "--lib-source"} /\ ~o.given
    \/ o.opt = "--provider" /\ o.given /\ Str(o.val) \notin {"claude", "copilot"}

HasVersion == \E i \in 1..Len(cmdline) : cmdline[i].opt = "--version"

\* --version is on the command line and nothing before it is refused
VersionBeforeError ==
    \E i \in 1..Len(cmdline) :
        /\ cmdline[i].opt = "--version"
        /\ \A j \in 1..(i - 1) : ~Offends(cmdline[j])

\* the run has not gone beyond argument parsing and has had no effect
EndsInParsing ==
    /\ pc \in {"parse", "done"}
    /\ argv = NoArgs
    /\ project_name = <<>>
    /\ module_name = <<>>
    /\ target_dir = <<>>
    /\ ~called
    /\ git_log = <<>>
    /\ fs = fs0

WritesSucceed ==
    /\ disk = NoDisk
    /\ ~(ConfigTarget \in DOMAIN fs0 /\ fs0[ConfigTarget].kind = "file")

\* the files a provider manifest would add below the target directory
ProviderPaths ==
    {<<"CLAUDE.md">>, <<".claude">>, <<".claude", "settings.json">>,
     <<".github">>, <<".github", "copilot-instructions.md">>}

\* C16: create_project called with a provider that is neither claude nor
\* copilot raises no error from it: on a file system that takes every write,
\* every base manifest file and .env are written, no provider-specific file
\* is, and the call ends with the completion report.
C16_UnknownProviderIsEmptyManifest ==
    (/\ called
     /\ catalog = MANIFEST
     /\ WritesSucceed
     /\ config.provider \notin {"claude", "copilot"}) =>
        /\ pc # "write_provider"
        /\ provider_manifest = <<>>
        /\ \A rel \in ProviderPaths : config.target_dir \o rel \notin DOMAIN fs
        /\ exc # "" => /\ git_log # <<>>
                       /\ git_log[Len(git_log)][2] = exc
        /\ pc \in {"git", "report", "done"} =>
               \A rel \in ExpectedFiles(Str(config.module_name)) :
                   /\ config.target_dir \o rel \in DOMAIN fs
                   /\ fs[config.target_dir \o rel].kind = "file"
        /\ (pc = "done" /\ exc = "") =>
               /\ exit_code = 0
               /\ stdout = <<"Created project">>

C16_Witness ==
    /\ pc = "done"
    /\ called
    /\ config.provider = "cursor"
    /\ config.init_git
    /\ exc = ""
    /\ stdout = <<"Created project">>
    /\ ConfigTarget \o <<".env">> \in DOMAIN fs
    /\ ConfigTarget \o <<"tests", "__init__.py">> \in DOMAIN fs
    /\ ConfigTarget \o <<"CLAUDE.md">> \notin DOMAIN fs

\* the entry's content or its destination-path pattern uses a placeholder
\* that kwargs does not supply
UsesUnknown(entry, kwargs) ==
    \/ \E i \in 1..Len(entry.template) :
           entry.template[i].k # "lit" /\ entry.template[i].v \notin DOMAIN kwargs
    \/ \E i \in 1..Len(entry.path) :
           entry.path[i].k = "var" /\ entry.path[i].v \notin DOMAIN kwargs

\* the positions of the catalogue whose entry uses an unsupplied placeholder
UnknownAt == {i \in 1..Len(catalog) : UsesUnknown(catalog[i], template_vars(config))}

\* C17: when an entry's content or destination-path pattern uses a
\* placeholder that the variable set lacks, rendering fails and the failure
\* ends the run: nothing is written for that entry or any later one, every
\* file written is a fully rendered earlier entry, and no completion report
\* is printed.
C17_MissingVariableAborts ==
    (called /\ WritesSucceed /\ UnknownAt # {}) =>
        LET k == CHOOSE i \in UnknownAt : \A j \in UnknownAt : i <= j
            tv == template_vars(config)
        IN  /\ pc \in {"write_base", "done"}
            /\ idx <= k
            /\ stdout = <<>>
            /\ pc = "done" => exc = "KeyError" /\ exit_code = 1
            /\ \A q \in Changed(fs0, fs) :
                   fs[q].kind = "file" =>
                       \E i \in 1..(k - 1) :
                           /\ format(catalog[i].path, tv).err = ""
                           /\ render(catalog[i].template, tv).err = ""
                           /\ q = config.target_dir \o format(catalog[i].path, tv).rel
                           /\ fs[q].content = render(catalog[i].template, tv).text

C17_Witness ==
    /\ pc = "done"
    /\ called
    /\ catalog = CatalogUnknownContent
    /\ exc = "KeyError"
    /\ exit_code = 1
    /\ stdout = <<>>
    /\ ConfigTarget \o <<"pyproject.toml">> \in DOMAIN fs
    /\ ConfigTarget \o <<"AUTHORS">> \notin DOMAIN fs
    /\ ConfigTarget \o <<".env.example">> \notin DOMAIN fs

PyNames ==
    {"main.py", "config.py", "__init__.py", "handler.py", "schemas.py",
     "example_api.py", "conftest.py", "test_hello_world.py"}

IsPy(path) == path[Len(path)].k = "lit" /\ path[Len(path)].v \in PyNames

\* where a placeholder of a Python template stands: in main_py and config_py
\* $project_name is inside the module docstring, and in main_py
\* ${module_name} is the package of a from-import
SlotKind(content, i) ==
    IF content \in {main_py, config_py} /\ content[i].v = "project_name"
    THEN "docstring"
    ELSE IF content = main_py /\ content[i].v = "module_name"
    THEN "package"
    ELSE "none"

\* the reserved words of Python that a lower-case name can be
PyKeywords ==
    {"and", "as", "assert", "async", "await", "break", "class", "continue",
     "def", "del", "elif", "else", "except", "finally", "for", "from", "global",
     "if", "import", "in", "is", "lambda", "nonlocal", "not", "or", "pass",
     "raise", "return", "try", "while", "with", "yield"}

\* three quotes in a row end a docstring
HasTripleQuote(chars) ==
    \E i \in 1..(Len(chars) - 2) :
        chars[i] = "\"" /\ chars[i + 1] = "\"" /\ chars[i + 2] = "\""

\* what compile() needs of the values put into a Python template: the text
\* put into a docstring does not end it, and the package of a from-import
\* is a name that is no reserved word
Compiles(content, kwargs) ==
    \A i \in 1..Len(content) :
        /\ SlotKind(content, i) = "docstring" => ~HasTripleQuote(kwargs[content[i].v])
        /\ SlotKind(content, i) = "package" =>
               /\ IsIdentifier(kwargs[content[i].v])
               /\ Str(kwargs[content[i].v]) \notin PyKeywords

\* C19: for every project name the create_microservice CLI accepts, every
\* generated file whose path ends in .py is valid Python.
C19_GeneratedPythonCompiles ==
    (Parsed /\ Completed) =>
        \A i \in 1..Len(MANIFEST) :
            IsPy(MANIFEST[i].path) =>
                Compiles(MANIFEST[i].template, template_vars(config))

\* ^[a-z_][a-z0-9_]*$ on a name without line breaks
MatchesPattern(chars) ==
    /\ chars # <<>>
    /\ chars[1] \in LowerSet \cup {"_"}
    /\ \A i \in 1..Len(chars) : chars[i] \in LowerSet \cup DigitSet \cup {"_"}

\* the steps of main in their order: each step is entered only from the one
\* before it, and a step that refuses ends the run
MainStepOrder ==
    /\ pc = "parse" => pc' \in {"start", "done"}
    /\ pc = "start" => pc' = "validate" /\ module_name' = _normalize_name(RawName)
    /\ pc = "validate" => pc' \in {"target", "done"}
    /\ pc = "target" => pc' \in {"config", "done"}
    /\ pc = "config" => pc' = "write_base"
    /\ pc' = "start" => pc = "parse"
    /\ pc' = "validate" => pc = "start"
    /\ pc' = "target" => pc = "validate"
    /\ pc' = "config" => pc = "target"
    /\ (called' /\ ~called) => pc = "config" /\ config'.target_dir = target_dir
    /\ (pc' = "write_base" /\ pc # "write_base") => pc = "config"
    /\ pc \in {"parse", "start", "validate", "target", "config"} => fs' = fs

\* C20: main goes parse -> normalize -> identifier validation ->
\* target-existence check -> ScaffoldConfig construction -> create_project,
\* and whenever create_project has started, module_name matches
\* ^[a-z_][a-z0-9_]*$, target_dir is cwd/module_name and target_dir was not
\* there when it was checked.
C20_MainOrderAndConfigInvariant ==
    /\ [][MainStepOrder]_vars
    /\ [](called =>
            /\ MatchesPattern(module_name)
            /\ config.module_name = module_name
            /\ target_dir = Cwd \o <<Str(module_name)>>
            /\ config.target_dir = target_dir
            /\ target_dir \notin DOMAIN fs0)

C20_Witness ==
    /\ called
    /\ pc = "write_base"
    /\ idx = 1
    /\ RawName = ExMyCoolService
    /\ config.target_dir = Cwd \o <<"my_cool_service">>
    /\ fs = fs0

\* the place of a step in create_project
Rank(p) ==
    CASE p = "call" -> 0
      [] p = "write_base" -> 1
      [] p = "select_provider" -> 2
      [] p = "write_provider" -> 3
      [] p = "copy_env" -> 4
      [] p = "git" -> 5
      [] p = "report" -> 6
      [] p = "done" -> 7

\* the file the entry at position i of a manifest is written to, and its text
Destination(manifest, i) ==
    config.target_dir \o format(manifest[i].path, template_vars(config)).rel

Rendered(manifest, i) == render(manifest[i].template, template_vars(config)).text

\* the files that differ between two file systems
FilesChanged(before, after) ==
    {q \in Changed(before, after) : q \in DOMAIN after /\ after[q].kind = "file"}

\* one finished turn of a manifest loop wrote the entry at idx, that file
\* only, and moved on to the next entry
WroteEntry(manifest, here, after) ==
    /\ idx' = idx + 1
    /\ pc' = IF idx = Len(manifest) THEN after ELSE here
    /\ FilesChanged(fs, fs') = {Destination(manifest, idx)}
    /\ fs'[Destination(manifest, idx)].content = Rendered(manifest, idx)
    /\ fs'[Destination(manifest, idx)].gen = run
    /\ Destination(manifest, idx) \in DOMAIN fs => fs[Destination(manifest, idx)].gen < run

\* what one step of a create_project run may do
CreateProjectStep ==
    /\ Rank(pc') >= Rank(pc)
    /\ (pc = "write_base" /\ pc' # "done") => WroteEntry(catalog, "write_base", "select_provider")
    /\ (pc = "write_provider" /\ pc' # "done") =>
           WroteEntry(ProviderManifest(config.provider), "write_provider", "copy_env")
    /\ pc = "select_provider" =>
           /\ fs' = fs
           /\ pc' = IF ProviderManifest(config.provider) = <<>>
                    THEN "copy_env" ELSE "write_provider"
    /\ pc = "copy_env" =>
           /\ FilesChanged(fs, fs') = {config.target_dir \o <<".env">>}
           /\ pc' = IF config.init_git THEN "git" ELSE "report"
    /\ pc = "git" => FilesChanged(fs, fs') = {} /\ Len(git_log') = Len(git_log) + 1
    /\ pc # "git" => git_log' = git_log
    /\ pc = "report" => pc' = "done" /\ fs' = fs
    /\ stdout' # stdout =>
           /\ pc = "report"
           /\ stdout = <<>>
           /\ stdout' = <<"Created project">>

\* C21: within one create_project run the base manifest entries are written
\* once each in manifest order, then the entries of the selected provider
\* manifest once each in order, then .env is copied, then (only with
\* init_git) version control is initialized, and the completion report comes
\* last and once; each step starts when the one before it has finished and
\* none is done again.
C21_CreateProjectStepsInOrder ==
    /\ [][CreateProjectStep]_vars
    /\ []((called /\ UnknownAt = {}) =>
            /\ pc = "write_base" =>
                   /\ \A j \in 1..(idx - 1) :
                          /\ Destination(catalog, j) \in DOMAIN fs
                          /\ fs[Destination(catalog, j)].gen = run
                   /\ \A j \in (idx + 1)..Len(catalog) :
                          Destination(catalog, j) \in DOMAIN fs =>
                              fs[Destination(catalog, j)].gen < run
                   /\ config.target_dir \o <<".env">> \notin DOMAIN fs
            /\ pc = "git" => config.init_git
            /\ (pc # "done" \/ exc # "") => stdout = <<>>
            /\ (pc = "done" /\ exc = "") => stdout = <<"Created project">>)

C21_Witness ==
    /\ pc = "done"
    /\ exc = ""
    /\ config.provider = "claude"
    /\ config.init_git
    /\ Len(git_log) = 3
    /\ stdout = <<"Created project">>
    /\ \A j \in 1..Len(CLAUDE_MANIFEST) : Destination(CLAUDE_MANIFEST, j) \in DOMAIN fs
    /\ fs[config.target_dir \o <<".env">>].gen = 1

\* the git steps that did not exit 0 or could not be started
GitFailures == {k \in 1..Len(git_log) : git_log[k][2] # "ok"}

\* C22: _git_init attempts init, add, commit in this order, each at most
\* once, add only after init succeeded and commit only after add succeeded;
\* after the first failing step no further git step runs and exactly one
\* warning is emitted.
C22_GitStepsStopAtFirstFailure ==
    /\ Len(git_log) <= 3
    /\ \A k \in 1..Len(git_log) : git_log[k][1] = GitCommands[k]
    /\ \A k \in 1..(Len(git_log) - 1) : git_log[k][2] = "ok"
    /\ GitFailures # {} =>
           /\ pc \in {"report", "done"}
           /\ stderr = <<"Warning: git init failed">>
    /\ GitFailures = {} => stderr = <<>>

\* --no-git is on the command line
NoGitAsked == \E i \in 1..Len(cmdline) : cmdline[i].opt = "--no-git"

\* C23: with --no-git (config.init_git false) no external process is started
\* at any point of the run: the file tree and .env are written and the
\* completion report is printed without a version-control step.
C23_NoGitStartsNoProcess ==
    (Parsed /\ NoGitAsked) =>
        /\ git_log = <<>>
        /\ pc # "git"
        /\ called => ~config.init_git
        /\ (pc = "done" /\ called) =>
               /\ exit_code = 0
               /\ stdout = <<"Created project">>
               /\ \A rel \in ExpectedFiles(Str(Normalized)) :
                      NormalizedTarget \o rel \in DOMAIN fs
               /\ NormalizedTarget \o <<".git">> \notin DOMAIN fs

C23_Witness ==
    /\ NoGitAsked
    /\ pc = "done"
    /\ called
    /\ exit_code = 0
    /\ git_log = <<>>
    /\ RawName = ExMyService
    /\ Cwd \o <<"my_service", ".env">> \in DOMAIN fs
    /\ Cwd \o <<"my_service", ".git">> \notin DOMAIN fs

\* the exceptions of mkdir and write_text that an entry in the way raises
FilesystemErrors ==
    {"FileExistsError", "NotADirectoryError", "IsADirectoryError", "FileNotFoundError"}

Destinations ==
    [j \in 1..Len(MANIFEST) |-> Destination(MANIFEST, j)]
        \o [j \in 1..Len(ProviderManifest(config.provider)) |->
                Destination(ProviderManifest(config.provider), j)]
        \o <<config.target_dir \o <<".env">>>>

\* C25: for every module name the CLI accepts and either provider, the
\* destination paths of the base manifest entries, of the selected provider
\* manifest entries and of .env are pairwise distinct, so that no file is
\* written twice within a run.
C25_DestinationsDistinct ==
    (Parsed /\ called) =>
        \A i, j \in 1..Len(Destinations) :
            i # j => Destinations[i] # Destinations[j]

\* the manifest files of the run in the order they are written
ManifestWrites == SubSeq(Destinations, 1, Len(Destinations) - 1)

\* the text the j-th manifest file of the run gets
ManifestText(j) ==
    IF j <= Len(MANIFEST) THEN Rendered(MANIFEST, j)
    ELSE Rendered(ProviderManifest(config.provider), j - Len(MANIFEST))

\* C26: when the write of the k-th manifest file fails, the run ends with
\* that error: the files of the entries before k stay on disk as written,
\* no later entry is written, .env is not copied, git is not started and no
\* completion report is printed.
C26_WriteFailureAborts ==
    (/\ called
     /\ catalog = MANIFEST
     /\ disk.at \in 1..Len(ManifestWrites)
     /\ ~(ConfigTarget \in DOMAIN fs0 /\ fs0[ConfigTarget].kind = "file")) =>
        /\ pc \in {"write_base", "select_provider", "write_provider", "done"}
        /\ pc = "write_base" => idx <= disk.at
        /\ pc = "write_provider" => Len(MANIFEST) + idx <= disk.at
        /\ git_log = <<>>
        /\ stdout = <<>>
        /\ \A j \in (disk.at + 1)..Len(ManifestWrites) :
               ManifestWrites[j] \in DOMAIN fs => fs[ManifestWrites[j]].gen < run
        /\ config.target_dir \o <<".env">> \notin DOMAIN fs
        /\ pc = "done" =>
               /\ exc = "OSError"
               /\ exit_code = 1
               /\ \A j \in 1..(disk.at - 1) :
                      /\ ManifestWrites[j] \in DOMAIN fs
                      /\ fs[ManifestWrites[j]] = File(ManifestText(j), run)

C26_Witness ==
    /\ pc = "done"
    /\ exc = "OSError"
    /\ catalog = MANIFEST
    /\ disk = [at |-> 5, kind |-> "write"]
    /\ ConfigTarget \o <<".env.example">> \in DOMAIN fs
    /\ ConfigTarget \o <<"src", "test_service", "main.py">> \in DOMAIN fs
    /\ fs[ConfigTarget \o <<"src", "test_service", "main.py">>].content = ""
    /\ ConfigTarget \o <<"src", "test_service", "config.py">> \notin DOMAIN fs
    /\ ConfigTarget \o <<".env">> \notin DOMAIN fs
    /\ stdout = <<>>

\* C27 as stated: once a ScaffoldConfig is constructed none of its fields
\* changes any more.
C27_ConfigNeverChanges == [][config' = config]_vars

\* C27 amended: the fields of a ScaffoldConfig can be assigned to after
\* construction (the class is a plain dataclass), and create_project leaves
\* the config it is given as it was: from the call on, no step changes it.
C27_CreateProjectLeavesConfig ==
    [][(called \/ called') => config' = config]_vars

C27_Witness ==
    /\ pc = "done"
    /\ called
    /\ exc = ""
    /\ config.provider = "copilot"
    /\ config.project_name = ExTestService
    /\ ConfigTarget \o <<".github", "copilot-instructions.md">> \in DOMAIN fs
    /\ ConfigTarget \o <<"CLAUDE.md">> \notin DOMAIN fs

\* what main of create_worker does with a command line in a working
\* directory (create_worker/cli.py:53-73): it leaves with a status, or builds
\* a ScaffoldConfig and calls create_project
worker_main(line, tree) ==
    LET r == worker_parse_args(line)
        project == r.args.name
        module == _normalize_name(project)
        target == PathDiv(Cwd, project)
    IN  IF r.status = "error"
        THEN [status |-> "exit", exit_code |-> 2, config |-> NoConfig]
        ELSE IF Exists(tree, target)
        THEN [status |-> "exit", exit_code |-> 1, config |-> NoConfig]
        ELSE [status |-> "create", exit_code |-> 0,
              config |-> [project_name |-> project,
                          module_name |-> module,
                          target_dir |-> target,
                          provider |-> r.args.provider,
                          usvc_lib_dependency |-> r.args.lib_source,
                          init_git |-> ~r.args.no_git]]

\* neither pipeline finds its project directory in the working directory, so
\* that their different directory names play no part in what they decide
NoTargetThere ==
    \A i \in 1..Len(cmdline) :
        (cmdline[i].opt = "--name" /\ cmdline[i].given) =>
            /\ ~Exists(fs0, PathDiv(Cwd, cmdline[i].val))
            /\ ~Exists(fs0, PathDiv(Cwd, _normalize_name(cmdline[i].val)))

\* C28: for a command line without --version, create_microservice and
\* create_worker decide alike: where create_microservice's main leaves
\* without calling create_project, create_worker's leaves with the same exit
\* status, and where it calls create_project, create_worker's does so with
\* the same project_name, module_name, provider, dependency source and
\* init_git.
C28_PipelinesEquivalent ==
    (~HasVersion /\ NoTargetThere) =>
        LET w == worker_main(cmdline, fs0)
        IN  /\ (pc = "done" /\ ~called) =>
                   /\ w.status = "exit"
                   /\ w.exit_code = exit_code
            /\ called =>
                   /\ w.status = "create"
                   /\ w.config.project_name = config.project_name
                   /\ w.config.module_name = config.module_name
                   /\ w.config.provider = config.provider
                   /\ w.config.usvc_lib_dependency = config.usvc_lib_dependency
                   /\ w.config.init_git = config.init_git

\* main has normalized the name given on the command line
HasNormalized == Parsed /\ pc \notin {"parse", "start"}

\* lower-case letters and digits in groups joined by single underscores,
\* with no underscore at either end
IsNormalForm(chars) ==
    /\ \A i \in 1..Len(chars) : chars[i] \in LowerSet \cup DigitSet \cup {"_"}
    /\ chars # <<>> => chars[1] # "_" /\ chars[Len(chars)] # "_"
    /\ \A i \in 1..(Len(chars) - 1) : ~(chars[i] = "_" /\ chars[i + 1] = "_")

\* C29 as stated: normalizing the normalized name gives it again, and a raw
\* name that is a valid module name (one the pattern of main accepts) is
\* returned unchanged.
C29_IdempotentAndValidUnchanged ==
    HasNormalized =>
        /\ module_name = _normalize_name(RawName)
        /\ _normalize_name(module_name) = module_name
        /\ IsIdentifier(RawName) => module_name = RawName

\* C29 amended: normalizing the normalized name gives it again, and a raw
\* name that is a valid module name without an underscore at either end and
\* without two underscores in a row is returned unchanged.
C29_IdempotentAndNormalFormUnchanged ==
    HasNormalized =>
        /\ module_name = _normalize_name(RawName)
        /\ _normalize_name(module_name) = module_name
        /\ IsNormalForm(module_name)
        /\ (IsIdentifier(RawName) /\ IsNormalForm(RawName)) => module_name = RawName

C29_Witness ==
    /\ HasNormalized
    /\ pc = "validate"
    /\ RawName = ExValid
    /\ module_name = ExValid
    /\ _normalize_name(ExDashed) = _normalize_name(_normalize_name(ExDashed))
    /\ _normalize_name(ExDashed) # ExDashed

\* the run before this one ended with status 0 and was made with another raw
\* name of the same normalized form: the main.py it wrote is in the working
\* directory as this run starts
AfterRunAs(first) ==
    LET written == NormalizedTarget \o <<"src", Str(Normalized), "main.py">>
    IN  /\ run > 1
        /\ history[run - 1] = 0
        /\ first # RawName
        /\ _normalize_name(first) = Normalized
        /\ written \in DOMAIN fs0
        /\ fs0[written].gen = run - 1
        /\ fs0[written].content =
               render(main_py, [project_name |-> first, module_name |-> Normalized]).text

\* C30: a create_microservice run made after a successful run with another
\* raw name of the same normalized form finds that run's directory as its own
\* target: it ends with exit status 1 on the existing-directory error, without
\* calling create_project and without changing any file.
C30_SameFormConflicts ==
    (\E first \in RenamedNames : AfterRunAs(first)) =>
        /\ fs = fs0
        /\ ~called
        /\ pc \in {"parse", "start", "validate", "target", "done"}
        /\ pc \in {"target", "done"} => Resolve(TargetDir(project_name, module_name)) = NormalizedTarget
        /\ pc = "done" =>
               /\ exit_code = 1
               /\ exc = "SystemExit"
               /\ stderr = <<"directory already exists">>

C30_Witness ==
    /\ AfterRunAs(ExMyService)
    /\ RawName = ExMySpaceService
    /\ pc = "done"
    /\ exit_code = 1
    /\ fs = fs0
    /\ fs[Cwd \o <<"my_service", "src", "my_service", "main.py">>].content =
           "\"\"\"Entry point for the my-service microservice.\"\"\"\n\nfrom usvc_lib import Application\n\nfrom my_service.config import Settings\n..."

====
